---- MODULE Spec2Model ----
(***************************************************************************)
(* Model of acorn-io/tools:                                                *)
(*   - azure-openai-model-provider/main.py: the FastAPI proxy in front of  *)
(*     the Azure OpenAI client (root, model list, chat completions,        *)
(*     embeddings, streaming, error mapping, debug logging);               *)
(*   - google/youtube/helpers.py: get_video_url.                           *)
(*                                                                         *)
(* The proxy runs on one asyncio event loop (uvicorn.run, main.py:136).    *)
(* A handler owns the loop from one await to the next; the upstream client *)
(* is the synchronous AzureOpenAI client (main.py:20), so a handler that   *)
(* is inside create(...) or inside next(stream) keeps the loop until the   *)
(* upstream answers.  `loop` is the connection that owns the loop, 0 when  *)
(* it is free.                                                             *)
(*                                                                         *)
(* `req` is the run of the process with the configured debug flag; `twin`  *)
(* is the run of the same process on the same inputs and the same upstream *)
(* behaviour with the flag negated (self-composition, for the claim about  *)
(* debug logging).                                                         *)
(*                                                                         *)
(* Strings that the code builds by concatenation are sequences of their    *)
(* pieces: "data: " + json + "\n\n" is <<"data: ", .., "\n\n">>.           *)
(* The `temperature` argument (main.py:71-73) is passed through unchanged  *)
(* and is not modelled.                                                    *)
(***************************************************************************)
EXTENDS Integers, Sequences, FiniteSets, TLC

VARIABLES debug, req, twin, loop, stdout, stdoutT, video_url, outcome

vars == <<debug, req, twin, loop, stdout, stdoutT, video_url, outcome>>
proxyVars == <<debug, req, twin, loop, stdout, stdoutT>>
urlVars == <<video_url, outcome>>

\* ------------------------------------------------------------------ bounds
MaxMsgs == 2
MaxChunks == 2
NumClients == 2

\* ------------------------------------------------------------- input data
SeqsUpTo(S, n) == UNION {[1..k -> S] : k \in 0..n}

\* the module-level prompt (main.py:30-37, abbreviated) and the message built from it
system == "You are task oriented system. ..."
SystemMessage == [content |-> system, role |-> "system"]

ClientMsgs ==
    { [content |-> "hi", role |-> "user"],
      [content |-> "be brief", role |-> "system"] }

\* a JSON key of the request body: absent, null, or a list
Absent == [kind |-> "absent", items |-> <<>>]
Null == [kind |-> "null", items |-> <<>>]
List(s) == [kind |-> "list", items |-> s]

\* openai._types.NOT_GIVEN as an argument of the upstream call
NOT_GIVEN == [kind |-> "NOT_GIVEN", items |-> <<>>]

ToolDef == [type |-> "function", name |-> "lookup"]

ToolsShapes == {Absent, Null, List(<<>>), List(<<ToolDef>>)}

MessagesShapes == {Absent} \cup {List(s) : s \in SeqsUpTo(ClientMsgs, MaxMsgs)}

Bodies ==
    [model : BOOLEAN, messages : MessagesShapes, tools : ToolsShapes, stream : BOOLEAN]

NoBody == [model |-> FALSE, messages |-> Absent, tools |-> Absent, stream |-> FALSE]

\* what a request to an endpoint can carry
BodiesOf(ep) ==
    CASE ep = "chat" -> Bodies
      [] ep = "embeddings" ->
            {[NoBody EXCEPT !.model = m] : m \in BOOLEAN}
      [] ep = "models" ->
            {NoBody, [NoBody EXCEPT !.model = TRUE, !.stream = TRUE]}
      [] OTHER -> {NoBody}

Endpoints == {"root", "models", "chat", "embeddings"}

\* exceptions the upstream client can raise: with or without the attributes
\* status_code and message; str is str(e)
NoError ==
    [has_status |-> FALSE, status_code |-> 0, has_message |-> FALSE,
     message |-> "", str |-> ""]

Errors ==
    { [has_status |-> TRUE, status_code |-> 429, has_message |-> TRUE,
       message |-> "rate limited", str |-> "Error code: 429"],
      [has_status |-> TRUE, status_code |-> 503, has_message |-> TRUE,
       message |-> "unavailable", str |-> "unavailable"],
      [has_status |-> FALSE, status_code |-> 0, has_message |-> TRUE,
       message |-> "Connection error.", str |-> "Connection error."],
      [has_status |-> TRUE, status_code |-> 404, has_message |-> FALSE,
       message |-> "", str |-> "not found"],
      [has_status |-> TRUE, status_code |-> 500, has_message |-> FALSE,
       message |-> "", str |-> "server error"],
      [has_status |-> FALSE, status_code |-> 0, has_message |-> FALSE,
       message |-> "", str |-> "boom"] }

\* KeyError raised by data["model"] / data["input"] inside the try block
KeyErrorModel ==
    [has_status |-> FALSE, status_code |-> 0, has_message |-> FALSE,
     message |-> "", str |-> "'model'"]

Chunks == { [id |-> 1, delta |-> "Hel"], [id |-> 2, delta |-> "lo"] }

\* the object a successful non-streaming create(...) returns
Result(api) == [object |-> api, id |-> "res-1"]

\* --------------------------------------------------------- pure functions
\* main.py:23-25.  What log prints, and whether the call raised.
log_raising(dbg, line) == [printed |-> <<>>, raised |-> dbg]

log(dbg, line) ==
    [printed |-> IF dbg THEN <<line>> ELSE <<>>, raised |-> FALSE]

\* data.get(key, NOT_GIVEN)
Get(v) == IF v.kind = "absent" THEN NOT_GIVEN ELSE v

\* main.py:64-69
tool_choice(tools) ==
    IF tools # NOT_GIVEN THEN "auto" ELSE "NOT_GIVEN"

\* main.py:78  messages.insert(0, {...})
append_system(messages) == Append(messages, SystemMessage)

insert_system(messages) == <<SystemMessage>> \o messages

\* pydantic's chunk.model_dump_json()
model_dump_json(chunk) == <<"{\"delta\":\"", chunk.delta, "\"}">>

\* main.py:128
Frame_unterminated(chunk) == <<"data: ">> \o model_dump_json(chunk)

Frame(chunk) == <<"data: ">> \o model_dump_json(chunk) \o <<"\n\n">>

\* fastapi.encoders.jsonable_encoder
jsonable_encoder(res) == <<"object", res.object, "id", res.id>>

\* main.py:93-100 and 116-123: the status and detail of the HTTPException
MapError_always_500(e, lg) ==
    [status |-> 500, detail |-> <<"Error occurred: ", e.str>>]

MapError_independent(e, lg) ==
    [status |-> IF e.has_status THEN e.status_code ELSE 500,
     detail |-> <<"Error occurred: ", IF e.has_message THEN e.message ELSE e.str>>]

MapError(e, lg) ==
    IF ~lg.raised /\ e.has_status /\ e.has_message
    THEN [status |-> e.status_code, detail |-> <<"Error occurred: ", e.message>>]
    ELSE [status |-> 500, detail |-> <<"Error occurred: ", e.str>>]

\* main.py:56
list_models_content == [data |-> << [id |-> "gpt-4", name |-> "Your model"] >>]

\* ------------------------------------------------------------ connections
Idle ==
    [pc |-> "idle", endpoint |-> "none", body |-> NoBody, upCalls |-> <<>>,
     status |-> 0, json |-> <<>>, models |-> <<>>, detail |-> <<>>, frames |-> <<>>,
     emitted |-> <<>>, raised |-> FALSE, err |-> NoError, errAt |-> "none",
     aborted |-> FALSE]

Step(c, out) == [conn |-> c, out |-> out]

\* the HTTPException of the except block, raised to the client
HttpError(c, e, at, dbg) ==
    LET lg == log(dbg, [prefix |-> "Error occurred: ", what |-> e.str])
        m == MapError(e, lg)
    IN  Step([c EXCEPT !.pc = "done", !.status = m.status, !.detail = m.detail,
                       !.raised = TRUE, !.err = e, !.errAt = at],
             lg.printed)

\* a client sends a request
Receive(c, ep, body) == [c EXCEPT !.pc = "received", !.endpoint = ep, !.body = body]

\* main.py:40-44
log_body(c, dbg) ==
    Step([c EXCEPT !.pc = "handler"],
         log(dbg, [prefix |-> "REQUEST BODY: ", what |-> c.endpoint]).printed)

\* main.py:47-50
get_root(c, dbg) ==
    Step([c EXCEPT !.pc = "done", !.status = 200, !.json = <<"uri">>], <<>>)

\* main.py:54-56
list_models(c, dbg) ==
    Step([c EXCEPT !.pc = "done", !.status = 200, !.models = list_models_content.data],
         <<>>)

\* main.py:60-87: up to the moment create(...) is entered
chat_completions(c, dbg) ==
    LET data == c.body
        tools == Get(data.tools)
        choice == tool_choice(tools)
    IN  IF data.messages.kind # "list"
        THEN \* data["messages"] raises outside the try block: the framework's 500
             Step([c EXCEPT !.pc = "done", !.status = 500,
                            !.detail = <<"Internal Server Error">>], <<>>)
        ELSE IF ~data.model
        THEN HttpError(c, KeyErrorModel, "handler", dbg)
        ELSE Step([c EXCEPT !.pc = "calling",
                            !.upCalls = Append(@, [api |-> "chat",
                                                  messages |-> insert_system(data.messages.items),
                                                  tools |-> tools,
                                                  tool_choice |-> choice,
                                                  stream |-> data.stream])],
                  <<>>)

\* main.py:104-112: up to the moment create(...) is entered
embeddings(c, dbg) ==
    IF ~c.body.model
    THEN HttpError(c, KeyErrorModel, "handler", dbg)
    ELSE Step([c EXCEPT !.pc = "calling",
                        !.upCalls = Append(@, [api |-> "embeddings", messages |-> <<>>,
                                              tools |-> NOT_GIVEN,
                                              tool_choice |-> "NOT_GIVEN",
                                              stream |-> FALSE])],
              <<>>)

\* main.py:88-91 and 114: create(...) returned
create_ok(c, dbg) ==
    IF c.endpoint = "chat" /\ c.body.stream
    THEN Step([c EXCEPT !.pc = "streaming", !.status = 200], <<>>)
    ELSE Step([c EXCEPT !.pc = "done", !.status = 200,
                        !.json = jsonable_encoder(Result(c.endpoint))], <<>>)

\* main.py:92-100 and 115-123: create(...) raised e; the except block raises
\* the HTTPException and the call is not made again
create_failed_retry(c, e, dbg) ==
    IF Len(c.upCalls) < 2
    THEN Step([c EXCEPT !.upCalls = Append(@, c.upCalls[1])], <<>>)
    ELSE HttpError(c, e, "call", dbg)

create_failed(c, e, dbg) == HttpError(c, e, "call", dbg)

\* main.py:126: the generator is resumed and enters next(stream)
convert_stream_next(c, dbg) == Step([c EXCEPT !.pc = "pulling"], <<>>)

\* main.py:126-128: next(stream) returned chunk; it is logged and yielded
convert_stream_yield(c, chunk, dbg) ==
    Step([c EXCEPT !.pc = "streaming",
                   !.emitted = Append(@, chunk),
                   !.frames = Append(@, Frame(chunk))],
         log(dbg, [prefix |-> "CHUNK: ", what |-> chunk.delta]).printed)

\* main.py:126: the upstream stream is exhausted
convert_stream_end(c, dbg) == Step([c EXCEPT !.pc = "done"], <<>>)

\* main.py:126: next(stream) raised e; the generator runs outside the try
\* block of chat_completions and the response has started
convert_stream_failed(c, e, dbg) ==
    Step([c EXCEPT !.pc = "done", !.raised = TRUE, !.err = e, !.errAt = "stream",
                   !.aborted = TRUE], <<>>)

\* ---------------------------------------------------------------- actions
Clients == DOMAIN req

Blocked(c) == c.pc \in {"calling", "pulling"}

\* both runs take the step (s in the run with the flag, t in its twin); the
\* loop stays with r exactly while r is inside a synchronous upstream call
Take(r, s, t) ==
    /\ req' = [req EXCEPT ![r] = s.conn]
    /\ twin' = [twin EXCEPT ![r] = t.conn]
    /\ stdout' = stdout \o s.out
    /\ stdoutT' = stdoutT \o t.out
    /\ loop' = IF Blocked(s.conn) THEN r ELSE 0
    /\ UNCHANGED <<debug, urlVars>>

Arrive(r, ep, body) ==
    /\ req[r].pc = "idle"
    /\ req' = [req EXCEPT ![r] = Receive(@, ep, body)]
    /\ twin' = [twin EXCEPT ![r] = Receive(@, ep, body)]
    /\ UNCHANGED <<debug, loop, stdout, stdoutT, urlVars>>

Middleware(r) ==
    /\ loop = 0
    /\ req[r].pc = "received"
    /\ Take(r, log_body(req[r], debug), log_body(twin[r], ~debug))

Root(r) ==
    /\ loop = 0
    /\ req[r].pc = "handler"
    /\ req[r].endpoint = "root"
    /\ Take(r, get_root(req[r], debug), get_root(twin[r], ~debug))

Models(r) ==
    /\ loop = 0
    /\ req[r].pc = "handler"
    /\ req[r].endpoint = "models"
    /\ Take(r, list_models(req[r], debug), list_models(twin[r], ~debug))

Chat(r) ==
    /\ loop = 0
    /\ req[r].pc = "handler"
    /\ req[r].endpoint = "chat"
    /\ Take(r, chat_completions(req[r], debug), chat_completions(twin[r], ~debug))

Embeddings(r) ==
    /\ loop = 0
    /\ req[r].pc = "handler"
    /\ req[r].endpoint = "embeddings"
    /\ Take(r, embeddings(req[r], debug), embeddings(twin[r], ~debug))

CreateReturns(r) ==
    /\ loop = r
    /\ req[r].pc = "calling"
    /\ Take(r, create_ok(req[r], debug), create_ok(twin[r], ~debug))

CreateRaises(r, e) ==
    /\ loop = r
    /\ req[r].pc = "calling"
    /\ Take(r, create_failed(req[r], e, debug), create_failed(twin[r], e, ~debug))

StreamResume(r) ==
    /\ loop = 0
    /\ req[r].pc = "streaming"
    /\ Take(r, convert_stream_next(req[r], debug), convert_stream_next(twin[r], ~debug))

StreamChunk(r, chunk) ==
    /\ loop = r
    /\ req[r].pc = "pulling"
    /\ Len(req[r].emitted) < MaxChunks
    /\ Take(r, convert_stream_yield(req[r], chunk, debug), convert_stream_yield(twin[r], chunk, ~debug))

StreamEnd(r) ==
    /\ loop = r
    /\ req[r].pc = "pulling"
    /\ Take(r, convert_stream_end(req[r], debug), convert_stream_end(twin[r], ~debug))

StreamRaises(r, e) ==
    /\ loop = r
    /\ req[r].pc = "pulling"
    /\ Take(r, convert_stream_failed(req[r], e, debug), convert_stream_failed(twin[r], e, ~debug))

InitUrlIdle ==
    /\ video_url = [set |-> FALSE, url |-> <<>>]
    /\ outcome = [kind |-> "none", value |-> <<>>]

InitProxy(n) ==
    /\ debug \in BOOLEAN
    /\ req = [r \in 1..n |-> Idle]
    /\ twin = [r \in 1..n |-> Idle]
    /\ loop = 0
    /\ stdout = <<>>
    /\ stdoutT = <<>>

\* one client connection, any request
Init == InitProxy(1) /\ InitUrlIdle

Next ==
    \/ \E r \in Clients : \E ep \in Endpoints : \E body \in BodiesOf(ep) : Arrive(r, ep, body)
    \/ \E r \in Clients : Middleware(r)
    \/ \E r \in Clients : Root(r)
    \/ \E r \in Clients : Models(r)
    \/ \E r \in Clients : Chat(r)
    \/ \E r \in Clients : Embeddings(r)
    \/ \E r \in Clients : CreateReturns(r)
    \/ \E r \in Clients : \E e \in Errors : CreateRaises(r, e)
    \/ \E r \in Clients : StreamResume(r)
    \/ \E r \in Clients : \E chunk \in Chunks : StreamChunk(r, chunk)
    \/ \E r \in Clients : StreamEnd(r)
    \/ \E r \in Clients : \E e \in Errors : StreamRaises(r, e)

Spec == Init /\ [][Next]_vars

\* NumClients concurrent connections; requests limited to the model list and
\* to chat requests with one client message
ConcBodies(ep) ==
    IF ep = "chat"
    THEN {[model |-> TRUE, messages |-> List(<<[content |-> "hi", role |-> "user"]>>),
           tools |-> Absent, stream |-> s] : s \in BOOLEAN}
    ELSE {NoBody}

InitConc == InitProxy(NumClients) /\ InitUrlIdle

NextConc ==
    \/ \E r \in Clients : \E ep \in {"models", "chat"} :
            \E body \in ConcBodies(ep) : Arrive(r, ep, body)
    \/ \E r \in Clients : Middleware(r)
    \/ \E r \in Clients : Models(r)
    \/ \E r \in Clients : Chat(r)
    \/ \E r \in Clients : CreateReturns(r)
    \/ \E r \in Clients : \E e \in Errors : CreateRaises(r, e)
    \/ \E r \in Clients : StreamResume(r)
    \/ \E r \in Clients : \E chunk \in Chunks : StreamChunk(r, chunk)
    \/ \E r \in Clients : StreamEnd(r)
    \/ \E r \in Clients : \E e \in Errors : StreamRaises(r, e)

SpecConc == InitConc /\ [][NextConc]_vars

\* ------------------------------------------------- google/youtube/helpers.py
\* A URL is the sequence of its tokens: the delimiters ":", "/", "?", "#",
\* "&", "=", "[", "@" one token each, and words that contain none of them
\* (and no "%" or "+", so that unquoting leaves them as they are).
Delims == {":", "/", "?", "#", "&", "=", "[", "@"}

Flatten(parts) ==
    parts[1] \o parts[2] \o parts[3] \o parts[4] \o parts[5]

UrlSchemes == { <<>>, <<"https", ":">> }

UrlHosts ==
    { <<"www.youtube.com">>, <<"youtu.be">>, <<"youtube.com">>, <<"m.youtube.com">>,
      <<"example.com">>, <<"www.youtube.com", ":", "443">>, <<"[", "youtu.be">>,
      <<"user", "@", "youtu.be">> }

UrlAuthorities == { <<>> } \cup { <<"/", "/">> \o h : h \in UrlHosts }

UrlPaths ==
    { <<>>, <<"/", "abc123">>, <<"/", "watch">>, <<"/", "/", "abc123", "/", "xyz", "/">>,
      <<"youtu.be", "/", "abc123">> }

UrlQueries ==
    { <<>>, <<"?", "v", "=", "abc123">>, <<"?", "v", "=">>, <<"?", "v">>,
      <<"?", "t", "=", "1", "&", "v", "=", "abc123", "&", "v", "=", "xyz">>,
      <<"?", "v", "=", "abc123", "=", "xyz">> }

UrlFragments == { <<>>, <<"#", "v", "=", "xyz">> }

Urls ==
    { Flatten(p) :
        p \in UrlSchemes \X UrlAuthorities \X UrlPaths \X UrlQueries \X UrlFragments }

\* os.getenv('VIDEO_URL'): unset, or a string
Environments == { [set |-> FALSE, url |-> <<>>] } \cup { [set |-> TRUE, url |-> u] : u \in Urls }

\* str.find: the index of the first token of s in T, 0 when there is none
Find(s, T) ==
    IF \E i \in 1..Len(s) : s[i] \in T
    THEN CHOOSE i \in 1..Len(s) : s[i] \in T /\ \A j \in 1..(i - 1) : s[j] \notin T
    ELSE 0

Before(s, i) == SubSeq(s, 1, i - 1)
After(s, i) == SubSeq(s, i + 1, Len(s))

\* a word of scheme characters whose first character is a letter
StartsAlpha(w) == w \notin Delims /\ w \notin {"443", "1"}

\* urllib.parse.urlsplit, as urlparse uses it
urlsplit(url) ==
    LET i == Find(url, {":"})
        hasScheme == /\ i > 1
                     /\ StartsAlpha(url[1])
                     /\ \A j \in 1..(i - 1) : url[j] \notin Delims
        scheme == IF hasScheme THEN Before(url, i) ELSE <<>>
        u1 == IF hasScheme THEN After(url, i) ELSE url
        hasNetloc == Len(u1) >= 2 /\ u1[1] = "/" /\ u1[2] = "/"
        u2 == IF hasNetloc THEN After(u1, 2) ELSE u1
        d == Find(u2, {"/", "?", "#"})
        netloc == IF ~hasNetloc THEN <<>> ELSE IF d = 0 THEN u2 ELSE Before(u2, d)
        u3 == IF ~hasNetloc THEN u1 ELSE IF d = 0 THEN <<>> ELSE SubSeq(u2, d, Len(u2))
        f == Find(u3, {"#"})
        fragment == IF f = 0 THEN <<>> ELSE After(u3, f)
        u4 == IF f = 0 THEN u3 ELSE Before(u3, f)
        q == Find(u4, {"?"})
        query == IF q = 0 THEN <<>> ELSE After(u4, q)
        path == IF q = 0 THEN u4 ELSE Before(u4, q)
    IN  [invalid_ipv6 |-> \E k \in 1..Len(netloc) : netloc[k] = "[",
         scheme |-> scheme, netloc |-> netloc, path |-> path,
         query |-> query, fragment |-> fragment]

\* str.split(sep): the pieces of s between the tokens sep
RECURSIVE Split(_, _)
Split(s, sep) ==
    LET i == Find(s, {sep})
    IN  IF i = 0 THEN <<s>> ELSE <<Before(s, i)>> \o Split(After(s, i), sep)

\* urllib.parse.parse_qsl with keep_blank_values=False: the (name, value)
\* pairs of the query, in order; a field without "=" or with an empty value
\* is dropped
RECURSIVE PairsOf(_)
PairsOf(fields) ==
    IF fields = <<>> THEN <<>>
    ELSE LET nv == fields[1]
             i == Find(nv, {"="})
         IN  (IF i # 0 /\ After(nv, i) # <<>>
              THEN << [name |-> Before(nv, i), value |-> After(nv, i)] >>
              ELSE <<>>) \o PairsOf(Tail(fields))

parse_qsl(query) == IF query = <<>> THEN <<>> ELSE PairsOf(Split(query, "&"))

\* parse_qs(query)[key]: the values of key in order; <<>> stands for KeyError
parse_qs(query, key) ==
    LET pairs == parse_qsl(query)
        RECURSIVE Values(_)
        Values(k) ==
            IF k > Len(pairs) THEN <<>>
            ELSE (IF pairs[k].name = key THEN <<pairs[k].value>> ELSE <<>>) \o Values(k + 1)
    IN  Values(1)

\* str.strip('/')
RECURSIVE strip(_)
strip(s) ==
    IF s = <<>> THEN s
    ELSE IF Head(s) = "/" THEN strip(Tail(s))
    ELSE IF s[Len(s)] = "/" THEN strip(Before(s, Len(s)))
    ELSE s

Return(v) == [kind |-> "return", value |-> v]
ValueError(msg) == [kind |-> "ValueError", value |-> msg]
KeyError(key) == [kind |-> "KeyError", value |-> key]

\* helpers.py:6-18
get_video_url(env) ==
    IF ~env.set THEN ValueError(<<"Error: video_url must be set">>)
    ELSE LET parsed == urlsplit(env.url) IN
         IF parsed.invalid_ipv6 THEN ValueError(<<"Invalid IPv6 URL">>)
         ELSE IF parsed.netloc = <<"www.youtube.com">>
         THEN LET vs == parse_qs(parsed.query, <<"v">>)
              IN  IF vs = <<>> THEN KeyError(<<"v">>) ELSE Return(vs[1])
         ELSE IF parsed.netloc = <<"youtu.be">>
         THEN Return(Split(strip(parsed.path), "/")[1])
         ELSE ValueError(<<"Invalid YouTube URL: ">> \o env.url)

InitUrl ==
    /\ video_url \in Environments
    /\ outcome = [kind |-> "none", value |-> <<>>]
    /\ debug = FALSE
    /\ req = [r \in 1..1 |-> Idle]
    /\ twin = [r \in 1..1 |-> Idle]
    /\ loop = 0
    /\ stdout = <<>>
    /\ stdoutT = <<>>

Resolve ==
    /\ outcome.kind = "none"
    /\ outcome' = get_video_url(video_url)
    /\ UNCHANGED <<video_url, proxyVars>>

NextUrl == Resolve

SpecUrl == InitUrl /\ [][NextUrl]_vars

\* ----------------------------------------------------------------- claims
Contains(s, piece) == \E i \in 1..Len(s) : s[i] = piece

\* C1: the messages of every upstream chat call are the fixed system message
\* followed by exactly the client's messages in their order.
C1_SystemMessageFirst ==
    \A r \in Clients :
        LET c == req[r] IN
        (c.endpoint = "chat" /\ c.body.messages.kind = "list") =>
            \A i \in 1..Len(c.upCalls) :
                /\ c.upCalls[i].messages =
                     <<[content |-> system, role |-> "system"]>> \o c.body.messages.items
                /\ Len(c.upCalls[i].messages) = Len(c.body.messages.items) + 1

C1_Witness ==
    \E r \in Clients :
        LET c == req[r] IN
        /\ c.pc = "done" /\ c.endpoint = "chat" /\ Len(c.upCalls) = 1
        /\ Len(c.body.messages.items) = 2
        /\ c.body.messages.items[1] # c.body.messages.items[2]
        /\ c.body.messages.items[1].role = "system"

\* C2: at every moment of a streaming chat response the frames delivered are
\* "data: <json>\n\n" of the chunks the upstream has emitted so far, one per
\* chunk and in the upstream's order; so frame i is out before chunk i+1 is
\* taken, and a stream that ends normally has delivered exactly its n frames.
C2_StreamFramesInOrder ==
    \A r \in Clients :
        LET c == req[r] IN
        (c.endpoint = "chat" /\ c.body.stream /\ c.upCalls # <<>>) =>
            /\ Len(c.frames) = Len(c.emitted)
            /\ \A i \in 1..Len(c.emitted) :
                   c.frames[i] = <<"data: ">> \o model_dump_json(c.emitted[i]) \o <<"\n\n">>
            /\ (c.pc = "done" /\ ~c.raised) => c.status = 200 /\ ~c.aborted

C2_Witness ==
    \E r \in Clients :
        LET c == req[r] IN
        /\ c.pc = "done" /\ ~c.raised /\ c.body.stream
        /\ Len(c.frames) = 2 /\ c.emitted[1] # c.emitted[2]

\* C3: when the upstream call of the chat or embeddings endpoint raises, the
\* HTTP error has the upstream status and a detail containing the upstream
\* message when both attributes exist, and otherwise status 500 with str(e);
\* an upstream 429 "rate limited" surfaces as 429 containing "rate limited".
C3_ErrorMapping ==
    \A r \in Clients :
        LET c == req[r] IN
        (c.pc = "done" /\ c.raised /\ c.errAt = "call") =>
            /\ IF c.err.has_status /\ c.err.has_message
               THEN c.status = c.err.status_code /\ Contains(c.detail, c.err.message)
               ELSE c.status = 500 /\ Contains(c.detail, c.err.str)
            /\ (c.err.has_status /\ c.err.status_code = 429
                    /\ c.err.has_message /\ c.err.message = "rate limited")
                 => c.status = 429 /\ Contains(c.detail, "rate limited")

C3_Witness ==
    \E r \in Clients :
        LET c == req[r] IN
        /\ c.pc = "done" /\ c.raised /\ c.errAt = "call" /\ c.endpoint = "embeddings"
        /\ c.err.status_code = 429 /\ c.err.message = "rate limited"
        /\ c.status = 429

\* C4 (as claimed): whenever the upstream of a chat request fails, at call
\* time or while a later chunk is produced, the caller gets the mapped HTTP
\* error and no data frame was delivered.
C4_NoPartialResults ==
    \A r \in Clients :
        LET c == req[r] IN
        (c.endpoint = "chat" /\ c.pc = "done" /\ c.raised /\ c.errAt \in {"call", "stream"}) =>
            /\ c.frames = <<>>
            /\ c.status = IF c.err.has_status /\ c.err.has_message
                          THEN c.err.status_code ELSE 500
            /\ ~c.aborted

\* C6 (as claimed): tool_choice is "auto" iff the request carries tools; with
\* no tools (absent key, empty list, null) tools and tool_choice are omitted.
CarriesTools(t) == t.kind = "list" /\ t.items # <<>>

C6_ToolChoiceIffTools ==
    \A r \in Clients :
        LET c == req[r] IN
        c.endpoint = "chat" =>
            \A i \in 1..Len(c.upCalls) :
                /\ (c.upCalls[i].tool_choice = "auto") <=> CarriesTools(c.body.tools)
                /\ ~CarriesTools(c.body.tools) =>
                       /\ c.upCalls[i].tools = NOT_GIVEN
                       /\ c.upCalls[i].tool_choice = "NOT_GIVEN"

\* C7: / and /v1/models make no upstream call and /v1/models answers with
\* exactly one model whatever the body; chat and embeddings make at most one
\* upstream call, also after a failure.
C7_UpstreamCallCount ==
    \A r \in Clients :
        LET c == req[r] IN
        /\ c.endpoint \in {"root", "models"} => c.upCalls = <<>>
        /\ c.endpoint \in {"chat", "embeddings"} => Len(c.upCalls) <= 1
        /\ (c.endpoint = "models" /\ c.pc = "done") => c.status = 200 /\ Len(c.models) = 1
        /\ (c.pc = "done" /\ c.raised /\ c.errAt = "handler") => c.upCalls = <<>>

C7_Witness ==
    \E r \in Clients :
        LET c == req[r] IN
        /\ c.pc = "done" /\ c.raised /\ c.errAt = "call" /\ Len(c.upCalls) = 1

\* C9: the run with the debug flag and the run without it, on the same
\* requests and the same upstream behaviour, make the same upstream calls and
\* give the same responses; the run with the flag off prints nothing.
C9_DebugNoInfluence ==
    /\ \A r \in Clients : twin[r] = req[r]
    /\ ~debug => stdout = <<>>
    /\ debug => stdoutT = <<>>

C9_Witness ==
    /\ debug
    /\ Len(stdout) >= 2
    /\ \E r \in Clients :
        LET c == req[r] IN
        /\ c.pc = "done" /\ c.raised /\ c.errAt = "call"
        /\ c.err.has_status /\ c.err.has_message

C5_NoSuspendOnAnother ==
    \A r \in Clients :
        req[r].pc \in {"received", "handler", "streaming"} => loop \in {0, r}

\* C8 (as claimed): get_video_url has exactly these outcomes: unset raises the
\* missing-input ValueError; host www.youtube.com returns the first value of
\* v or fails with KeyError; host youtu.be returns the first path segment;
\* every other input raises the invalid-URL ValueError that names the input.
C8_ExactlyTheseOutcomes ==
    outcome.kind # "none" =>
        LET host == urlsplit(video_url.url).netloc
            vs == parse_qs(urlsplit(video_url.url).query, <<"v">>)
        IN  IF ~video_url.set
            THEN outcome = ValueError(<<"Error: video_url must be set">>)
            ELSE IF host = <<"www.youtube.com">>
            THEN outcome = IF vs = <<>> THEN KeyError(<<"v">>) ELSE Return(vs[1])
            ELSE IF host = <<"youtu.be">>
            THEN outcome = Return(Split(strip(urlsplit(video_url.url).path), "/")[1])
            ELSE outcome = ValueError(<<"Invalid YouTube URL: ">> \o video_url.url)

====
